---- MODULE Spec2Model ----
(***************************************************************************)
(* Calendar synchronisation of dropcal: the batch orchestrators            *)
(* create_events_from_session of the Apple (CalDAV) and Microsoft (Graph)  *)
(* integrations, the remote calendar they write to and the provider_syncs  *)
(* ledger.  Times are half-hour ticks since midnight of day 0.             *)
(***************************************************************************)
EXTENDS Integers, Sequences, FiniteSets, TLC

VARIABLES
    provider,   \* the integration the session is synchronised with
    creds,      \* state of the user's stored credentials for that provider
    session,    \* Session.get_by_id(session_id): None or Some(row)
    remote,     \* events on the remote calendar
    syncs,      \* rows of provider_syncs
    run,        \* per invocation of create_events_from_session: its locals
    call,       \* one call of a provider's create_event, and the read back
    query       \* one call of fetch.check_conflicts on a calendar

vars == <<provider, creds, session, remote, syncs, run, call, query>>

-----------------------------------------------------------------------------
(* Bounds *)

MaxBatch == 3

-----------------------------------------------------------------------------
(* Python's Optional: None, or a value *)

None == <<>>
Some(v) == <<v>>
Truthy(o) == o # <<>>
Get(o) == o[1]

Providers == {"apple", "microsoft"}
Runs == {"r1", "r2"}

-----------------------------------------------------------------------------
(* Universal events *)

Timed(s, e) ==
    [start |-> [dateTime |-> Some(s), date |-> None],
     end   |-> [dateTime |-> Some(e), date |-> None]]

AllDay(d1, d2) ==
    [start |-> [dateTime |-> None, date |-> Some(d1)],
     end   |-> [dateTime |-> None, date |-> Some(d2)]]

\* A recurrence line as text: the "RRULE:" prefix and the KEY=value parts that
\* ';' separates.  repr: the text is not a rule but Python's str() of this dict.
RRule(parts) == [prefixed |-> TRUE, parts |-> parts, repr |-> None]

NoRule == <<>>
\* "RRULE:FREQ=WEEKLY;INTERVAL=abc": INTERVAL is not a number
BadIntervalRule == <<RRule(<<<<"FREQ", "WEEKLY">>, <<"INTERVAL", "abc">>>>)>>

EventIds == {"e1", "e2", "e3", "e4"}

\* The rows of the events table.  e1 and e2 overlap; e3 is an all-day event;
\* e4 starts where e1 ends, carries a recurrence rule outside the grammar and
\* is a soft-deleted row (a session's processed_events hold it as a plain dict).
EventTable ==
    [eid \in EventIds |->
        CASE eid = "e1" -> Timed(28, 30) @@ [summary |-> "A", recurrence |-> NoRule,
                                             deleted_at |-> None]
          [] eid = "e2" -> Timed(29, 31) @@ [summary |-> "B", recurrence |-> NoRule,
                                             deleted_at |-> None]
          [] eid = "e3" -> AllDay(0, 1) @@ [summary |-> "C", recurrence |-> NoRule,
                                            deleted_at |-> None]
          [] eid = "e4" -> Timed(30, 32) @@ [summary |-> "D",
                                             recurrence |-> BadIntervalRule,
                                             deleted_at |-> Some(1)]]

\* An event already on the remote calendar before any run, in the morning of
\* day 0: it overlaps none of the timed events above.
ExistingRemote ==
    {[uid |-> <<"x", 0>>, ev |-> Timed(20, 22) @@ [summary |-> "X"],
      status |-> "confirmed", fresh |-> FALSE]}

-----------------------------------------------------------------------------
(* The stored session and the events table *)

\* Event.get_by_id(eid)
EventGetById(eid) == IF eid \in DOMAIN EventTable THEN Some(EventTable[eid]) ELSE None

\* EventService.event_row_to_calendar_event(row) with the keys id, version and
\* provider_syncs removed again: the event dict handed to the provider API
ApiEvent(row) ==
    [summary |-> row.summary, start |-> row.start, end |-> row.end,
     recurrence |-> row.recurrence]

InjectiveSeqs(S, n) ==
    {q \in UNION {[1..m -> S] : m \in 0..n} :
        \A i, j \in DOMAIN q : i # j => q[i] # q[j]}

Batches == InjectiveSeqs(EventIds, MaxBatch)

\* A session row holds the ids of its events (event_ids) or, for sessions
\* written before the events table, the event dicts (processed_events).
Sessions ==
    {None}
    \cup {Some([event_ids |-> b, processed_events |-> <<>>]) : b \in Batches}
    \cup {Some([event_ids |-> <<>>,
                processed_events |-> [k \in DOMAIN b |-> ApiEvent(EventTable[b[k]])]]) :
            b \in Batches}

-----------------------------------------------------------------------------
(* Intervals and the conflict query *)

Midnight(d) == d * 48

\* An overlap test that counts intervals that only touch
OverlapsClosed(es, ee, cs, ce) == es <= ce /\ ee >= cs

\* es < ce AND ee > cs
Overlaps(es, ee, cs, ce) == es < ce /\ ee > cs

\* A conflict query that returns the events that start inside the candidate
AppleCheckConflictsStartInside(cal, cs, ce) ==
    {x \in cal :
        /\ x.status # "cancelled"
        /\ Truthy(x.ev.start.dateTime) /\ Truthy(x.ev.end.dateTime)
        /\ cs <= Get(x.ev.start.dateTime) /\ Get(x.ev.start.dateTime) < ce}

\* Apple fetch.check_conflicts: the events of the calendar range query that are
\* not cancelled, carry start.dateTime and end.dateTime, and overlap
AppleCheckConflicts(cal, cs, ce) ==
    {x \in cal :
        /\ x.status # "cancelled"
        /\ Truthy(x.ev.start.dateTime) /\ Truthy(x.ev.end.dateTime)
        /\ Overlaps(Get(x.ev.start.dateTime), Get(x.ev.end.dateTime), cs, ce)}

\* ConflictDetector on the Microsoft calendar: all-day events take part as
\* [midnight(start.date), midnight(end.date))
IntervalStart(ev) ==
    IF Truthy(ev.start.dateTime) THEN Get(ev.start.dateTime)
    ELSE Midnight(Get(ev.start.date))

IntervalEnd(ev) ==
    IF Truthy(ev.end.dateTime) THEN Get(ev.end.dateTime)
    ELSE Midnight(Get(ev.end.date))

MicrosoftCheckConflicts(cal, cs, ce) ==
    {x \in cal :
        /\ x.status # "cancelled"
        /\ Overlaps(IntervalStart(x.ev), IntervalEnd(x.ev), cs, ce)}

check_conflicts(p, cal, cs, ce) ==
    IF p = "apple" THEN AppleCheckConflicts(cal, cs, ce)
    ELSE MicrosoftCheckConflicts(cal, cs, ce)

-----------------------------------------------------------------------------
(* Authentication *)

\* An is_authenticated that only looks whether credentials are stored
AppleIsAuthenticatedStoredOnly(c) == c # "none"

\* Apple auth.is_authenticated: load_credentials returns None (not connected)
\* or raises (incomplete credentials), or get_caldav_client raises: all False
AppleIsAuthenticated(c) ==
    IF c = "none" THEN FALSE
    ELSE IF c = "invalid" THEN FALSE
    ELSE TRUE

\* Microsoft auth.is_authenticated
MicrosoftIsAuthenticated(c) == c = "valid"

-----------------------------------------------------------------------------
(* Microsoft transform.from_universal: does it raise on this event? *)

Numerals == {"0", "1", "2", "3"}

\* int(text), where it does not raise ValueError
int(text) ==
    CASE text = "0" -> 0 [] text = "1" -> 1 [] text = "2" -> 2 [] text = "3" -> 3

RuleKeys == {"FREQ", "INTERVAL", "BYDAY", "BYMONTHDAY", "UNTIL", "COUNT"}

\* Lines 303-313: rule.split(';') and part.split('=', 1) into the dict params;
\* a key given twice keeps its last value
Params(rule) ==
    [key \in RuleKeys |->
        LET at == {i \in DOMAIN rule.parts : rule.parts[i][1] = key} IN
        IF at = {} THEN None
        ELSE Some(rule.parts[CHOOSE i \in at : \A j \in at : j <= i][2])]

\* Line 315: params.get('FREQ', '')
Freq(params) == IF Truthy(params.FREQ) THEN Get(params.FREQ) ELSE ""

\* int(params.get('INTERVAL', '1')) of line 316, int(bymonthday) of line 345
\* and int(params['COUNT']) of line 370 raise ValueError on other text
RecurrenceRaises(rules) ==
    /\ rules # <<>>
    /\ LET params == Params(rules[1]) IN
        \/ Truthy(params.INTERVAL) /\ Get(params.INTERVAL) \notin Numerals
        \/ /\ Freq(params) = "MONTHLY"
           /\ Truthy(params.BYMONTHDAY) /\ Get(params.BYMONTHDAY) \notin Numerals
        \/ /\ Freq(params) \in {"DAILY", "WEEKLY", "MONTHLY", "YEARLY"}
           /\ ~Truthy(params.UNTIL)
           /\ Truthy(params.COUNT) /\ Get(params.COUNT) \notin Numerals

MicrosoftFromUniversalRaises(ev) == RecurrenceRaises(ev.recurrence)

-----------------------------------------------------------------------------
(* Microsoft transform: universal event <-> Graph event.  Text is modelled   *)
(* by its parts: a dateTime "2026-03-10T14:00:00" is <<date, time>>; the     *)
(* functions of text the code uses (int, split, lower, slices, strptime) are *)
(* tables over the texts of the model.                                        *)

\* byday.split(',')
SplitComma(text) ==
    CASE text = "TU,TH" -> <<"TU", "TH">>
      [] text = "MO,XX" -> <<"MO", "XX">>
      [] OTHER -> <<text>>

\* day_map, lines 319-322
day_map ==
    [d \in {"MO", "TU", "WE", "TH", "FR", "SA", "SU"} |->
        CASE d = "MO" -> "monday" [] d = "TU" -> "tuesday" [] d = "WE" -> "wednesday"
          [] d = "TH" -> "thursday" [] d = "FR" -> "friday" [] d = "SA" -> "saturday"
          [] d = "SU" -> "sunday"]

\* [day_map[d] for d in byday.split(',') if d in day_map]
RECURSIVE MappedDays(_)
MappedDays(tokens) ==
    IF tokens = <<>> THEN <<>>
    ELSE (IF Head(tokens) \in DOMAIN day_map THEN <<day_map[Head(tokens)]>> ELSE <<>>)
         \o MappedDays(Tail(tokens))

\* start.get('dateTime') or start.get('date', ''), cut to its first ten
\* characters: the date part
StartDate(start) ==
    IF Truthy(start.dateTime) THEN Get(start.dateTime)[1]
    ELSE IF Truthy(start.date) THEN Get(start.date)
    ELSE ""

\* Lines 336-341: days[strptime(date_str, '%Y-%m-%d').weekday()], 'monday' when
\* the text is not a date
WeekdayName(date_str) ==
    CASE date_str = "2026-02-02" -> "monday"
      [] date_str = "2026-02-25" -> "wednesday"
      [] date_str = "2026-02-26" -> "thursday"
      [] OTHER -> "monday"

\* An end date that is the UNTIL text as it stands
UntilVerbatim(until) == until

\* Lines 364-368: len(until) >= 8, and until[:4]-until[4:6]-until[6:8]
UntilLongEnough(until) == until \notin {"2026", "soon"}
UntilEndDate(until) ==
    CASE until = "20261231" -> "2026-12-31"
      [] until = "20261231T235959Z" -> "2026-12-31"
      [] until = "next year" -> "next- y-ea"
      [] OTHER -> until

\* _rrule_to_ms_recurrence(rrule_list, start), where it does not raise: None,
\* or the Graph recurrence dict
rrule_to_ms_recurrence(rrule_list, start) ==
    IF rrule_list = <<>> THEN None
    ELSE
      LET params == Params(rrule_list[1])
          freq == Freq(params)
          interval == IF Truthy(params.INTERVAL) THEN int(Get(params.INTERVAL)) ELSE 1
          base == [interval |-> interval, firstDayOfWeek |-> "sunday", type |-> "",
                   daysOfWeek |-> None, dayOfMonth |-> None, month |-> None]
          pattern ==
            CASE freq = "DAILY" -> [base EXCEPT !.type = "daily"]
              [] freq = "WEEKLY" ->
                   [base EXCEPT !.type = "weekly",
                                !.daysOfWeek =
                                   IF Truthy(params.BYDAY)
                                   THEN Some(MappedDays(SplitComma(Get(params.BYDAY))))
                                   ELSE IF StartDate(start) # ""
                                   THEN Some(<<WeekdayName(StartDate(start))>>)
                                   ELSE None]
              [] freq = "MONTHLY" ->
                   [base EXCEPT !.type = "absoluteMonthly",
                                !.dayOfMonth =
                                   IF Truthy(params.BYMONTHDAY)
                                   THEN Some(int(Get(params.BYMONTHDAY)))
                                   ELSE Some(1)]
              [] freq = "YEARLY" ->
                   [base EXCEPT !.type = "absoluteYearly",
                                !.month = Some(1), !.dayOfMonth = Some(1)]
              [] OTHER -> base
          noEnd == [type |-> "noEnd", startDate |-> StartDate(start),
                    endDate |-> None, numberOfOccurrences |-> None]
          recurrence_range ==
            IF Truthy(params.UNTIL)
            THEN IF UntilLongEnough(Get(params.UNTIL))
                 THEN [noEnd EXCEPT !.type = "endDate",
                                    !.endDate = Some(UntilEndDate(Get(params.UNTIL)))]
                 ELSE noEnd
            ELSE IF Truthy(params.COUNT)
                 THEN [noEnd EXCEPT !.type = "numbered",
                                    !.numberOfOccurrences = Some(int(Get(params.COUNT)))]
                 ELSE noEnd
      IN IF freq \in {"DAILY", "WEEKLY", "MONTHLY", "YEARLY"}
         THEN Some([pattern |-> pattern, range |-> recurrence_range])
         ELSE None

\* category.lower(), for the category names of the model
Lower(text) ==
    CASE text = "Work" -> "work"
      [] text = "Other" -> "other"
      [] text = "Academic" -> "academic"
      [] text = "Social" -> "social"
      [] text = "Personal" -> "personal"
      [] text = "Meeting" -> "meeting"
      [] text = "Travel" -> "travel"
      [] text = "Family" -> "family"
      [] text = "Important" -> "important"
      [] text = "General" -> "general"
      [] text = "Custom" -> "custom"
      [] OTHER -> text

\* _map_category_to_color, lines 194-253
map_category_to_color(category) ==
    LET category_lower == Lower(category) IN
    CASE category_lower \in {"school", "academic", "class", "homework", "study"} -> "2"
      [] category_lower \in {"important", "urgent", "deadline", "critical"} -> "11"
      [] category_lower \in {"personal", "private"} -> "9"
      [] category_lower \in {"work", "business", "project"} -> "10"
      [] category_lower \in {"meeting", "appointment"} -> "5"
      [] category_lower \in {"social", "event", "party"} -> "3"
      [] category_lower \in {"travel", "trip"} -> "6"
      [] category_lower \in {"birthday", "holiday"} -> "4"
      [] category_lower = "family" -> "7"
      [] OTHER -> "1"

\* _map_color_to_category, lines 256-281
map_color_to_category(color_id) ==
    CASE color_id = "1" -> "General"
      [] color_id = "2" -> "Academic"
      [] color_id = "3" -> "Social"
      [] color_id = "4" -> "Personal"
      [] color_id = "5" -> "Meeting"
      [] color_id = "6" -> "Travel"
      [] color_id = "7" -> "Family"
      [] color_id = "8" -> "Other"
      [] color_id = "9" -> "Personal"
      [] color_id = "10" -> "Work"
      [] color_id = "11" -> "Important"
      [] OTHER -> "General"

\* _convert_response_status, lines 169-191: the keys are looked up with the
\* lower-cased response, so the keys that hold a capital are never found
convert_response_status(ms_response) ==
    IF ~Truthy(ms_response) THEN "needsAction"
    ELSE LET lowered == CASE Get(ms_response) = "tentativelyAccepted" -> "tentativelyaccepted"
                          [] Get(ms_response) = "notResponded" -> "notresponded"
                          [] OTHER -> Get(ms_response) IN
         CASE lowered = "accepted" -> "accepted"
           [] lowered = "declined" -> "declined"
           [] lowered = "tentativelyAccepted" -> "tentativelyAccepted"
           [] lowered = "tentative" -> "tentativelyAccepted"
           [] lowered = "notResponded" -> "needsAction"
           [] lowered = "none" -> "needsAction"
           [] OTHER -> "needsAction"

\* date + 'T00:00:00' (lines 112, 116)
AtMidnight(date) == <<date, "00:00:00">>

\* A split that keeps the text after the 'T'
SplitTimePart(dateTime) == dateTime[2]

\* dateTime.split('T')[0] (lines 67-68)
SplitDatePart(dateTime) == dateTime[1]

\* d.get(key, default) on an optional key
GetOr(o, default) == IF Truthy(o) THEN Get(o) ELSE default

\* A conversion that derives the categories from colorId whenever it is set
CategoriesColorFirst(universal_event) ==
    IF Truthy(universal_event.colorId)
    THEN Some(<<map_color_to_category(Get(universal_event.colorId))>>)
    ELSE universal_event.microsoft_categories

\* Lines 157-164: the preserved categories, else the category of colorId
CategoriesOf(universal_event) ==
    IF Truthy(universal_event.microsoft_categories)
    THEN universal_event.microsoft_categories
    ELSE IF Truthy(universal_event.colorId)
    THEN Some(<<map_color_to_category(Get(universal_event.colorId))>>)
    ELSE None

\* from_universal, lines 81-166, where _rrule_to_ms_recurrence does not raise.
\* Keys the dict may lack are Optionals; id and isCancelled are keys that only
\* the server sets.
MicrosoftFromUniversal(universal_event) ==
    LET start == universal_event.start
        end == universal_event.end
        is_all_day == Truthy(start.date)
        ms_recurrence == rrule_to_ms_recurrence(universal_event.recurrence, start)
    IN [id |-> None,
        isCancelled |-> FALSE,
        subject |-> universal_event.summary,
        body |-> [contentType |-> "text",
                  content |-> GetOr(universal_event.description, "")],
        location |-> IF Truthy(universal_event.location)
                     THEN Some([displayName |-> Get(universal_event.location)])
                     ELSE None,
        isAllDay |-> is_all_day,
        start |-> IF is_all_day
                  THEN Some([dateTime |-> AtMidnight(Get(start.date)),
                             timeZone |-> GetOr(start.timeZone, "UTC")])
                  ELSE IF Truthy(start.dateTime)
                  THEN Some([dateTime |-> Get(start.dateTime),
                             timeZone |-> GetOr(start.timeZone, "UTC")])
                  ELSE None,
        end |-> IF is_all_day
                THEN Some([dateTime |-> AtMidnight(Get(end.date)),
                           timeZone |-> GetOr(end.timeZone, "UTC")])
                ELSE IF Truthy(end.dateTime)
                THEN Some([dateTime |-> Get(end.dateTime),
                           timeZone |-> GetOr(end.timeZone, "UTC")])
                ELSE None,
        attendees |-> [i \in DOMAIN universal_event.attendees |->
                         LET attendee == universal_event.attendees[i] IN
                         [emailAddress |-> [address |-> attendee.email,
                                            name |-> GetOr(attendee.displayName,
                                                           attendee.email)],
                          type |-> "required",
                          status |-> None]],
        recurrence |-> IF universal_event.recurrence # <<>> THEN ms_recurrence ELSE None,
        categories |-> CategoriesOf(universal_event)]

\* to_universal, lines 9-78
MicrosoftToUniversal(ms_event) ==
    LET start == ms_event.start
        end == ms_event.end
        categories == GetOr(ms_event.categories, <<>>)
        point(p) == IF ms_event.isAllDay
                    THEN [dateTime |-> None, date |-> Some(SplitDatePart(Get(p).dateTime)),
                          timeZone |-> None]
                    ELSE IF Truthy(p)
                    THEN [dateTime |-> Some(Get(p).dateTime), date |-> None,
                          timeZone |-> Some(Get(p).timeZone)]
                    ELSE [dateTime |-> None, date |-> None, timeZone |-> None]
    IN [id |-> ms_event.id,
        summary |-> ms_event.subject,
        description |-> Some(ms_event.body.content),
        status |-> Some(IF ms_event.isCancelled THEN "cancelled" ELSE "confirmed"),
        location |-> IF Truthy(ms_event.location)
                     THEN Some(Get(ms_event.location).displayName)
                     ELSE None,
        start |-> point(start),
        end |-> point(end),
        attendees |-> [i \in DOMAIN ms_event.attendees |->
                         LET attendee == ms_event.attendees[i] IN
                         [email |-> attendee.emailAddress.address,
                          displayName |-> Some(attendee.emailAddress.name),
                          responseStatus |->
                              Some(convert_response_status(attendee.status))]],
        recurrence |-> IF Truthy(ms_event.recurrence)
                       THEN <<[prefixed |-> TRUE, parts |-> <<>>,
                               repr |-> ms_event.recurrence]>>
                       ELSE <<>>,
        microsoft_categories |-> IF categories # <<>> THEN Some(categories) ELSE None,
        colorId |-> IF categories # <<>>
                    THEN Some(map_category_to_color(categories[1]))
                    ELSE None]

-----------------------------------------------------------------------------
(* Apple transform: universal event <-> iCalendar VEVENT *)

\* status.upper() and str(STATUS).lower(), for the statuses of the model
Upper(text) ==
    CASE text = "confirmed" -> "CONFIRMED"
      [] text = "tentative" -> "TENTATIVE"
      [] text = "cancelled" -> "CANCELLED"
      [] OTHER -> text

LowerStatus(text) ==
    CASE text = "CONFIRMED" -> "confirmed"
      [] text = "TENTATIVE" -> "tentative"
      [] text = "CANCELLED" -> "cancelled"
      [] OTHER -> text

\* Lines 136-156: datetime.fromisoformat / date.fromisoformat of a start or
\* end; the timeZone key is not read, so the datetime is naive
AppleDt(point) ==
    IF Truthy(point.dateTime)
    THEN Some([isDatetime |-> TRUE, date |-> Get(point.dateTime)[1],
               time |-> Get(point.dateTime)[2], tzinfo |-> None])
    ELSE IF Truthy(point.date)
    THEN Some([isDatetime |-> FALSE, date |-> Get(point.date), time |-> "",
               tzinfo |-> None])
    ELSE None

\* The date texts of the model that datetime.fromisoformat, date.fromisoformat
\* and strptime accept
IsoDates == {"2026-02-02", "2026-02-25", "2026-02-26"}

\* Lines 138 and 150: fromisoformat raises ValueError on other text
AppleFromUniversalRaises(universal_event) ==
    \/ StartDate(universal_event.start) \notin IsoDates
    \/ StartDate(universal_event.end) \notin IsoDates

\* from_universal, lines 100-180: the VEVENT of the calendar it returns.
\* fresh_uid: the text of uuid.uuid4()
AppleFromUniversal(universal_event, fresh_uid) ==
    [SUMMARY |-> universal_event.summary,
     DESCRIPTION |-> IF Truthy(universal_event.description) /\ Get(universal_event.description) # ""
                     THEN universal_event.description ELSE None,
     LOCATION |-> IF Truthy(universal_event.location) /\ Get(universal_event.location) # ""
                  THEN universal_event.location ELSE None,
     STATUS |-> Some(Upper(GetOr(universal_event.status, "confirmed"))),
     UID |-> IF Truthy(universal_event.id) THEN universal_event.id ELSE Some(fresh_uid),
     DTSTART |-> AppleDt(universal_event.start),
     DTEND |-> AppleDt(universal_event.end),
     ATTENDEE |-> [i \in DOMAIN universal_event.attendees |->
                     LET attendee == universal_event.attendees[i] IN
                     [address |-> <<"mailto:", attendee.email>>,
                      CN |-> attendee.displayName,
                      ROLE |-> "REQ-PARTICIPANT"]],
     RRULE |-> None]

\* A conversion that gives a date-only value a dateTime at midnight as well
ApplePointBothForms(dtprop) ==
    IF ~Truthy(dtprop)
    THEN [dateTime |-> None, date |-> None, timeZone |-> None]
    ELSE LET dt == Get(dtprop) IN
         IF dt.isDatetime
         THEN [dateTime |-> Some(<<dt.date, dt.time>>), date |-> None,
               timeZone |-> Some(GetOr(dt.tzinfo, "UTC"))]
         ELSE [dateTime |-> Some(<<dt.date, "00:00:00">>), date |-> Some(dt.date),
               timeZone |-> Some("UTC")]

\* Lines 37-67: a DTSTART or DTEND as a universal start or end
ApplePoint(dtprop) ==
    IF ~Truthy(dtprop)
    THEN [dateTime |-> None, date |-> None, timeZone |-> None]
    ELSE LET dt == Get(dtprop) IN
         IF dt.isDatetime
         THEN [dateTime |-> Some(<<dt.date, dt.time>>), date |-> None,
               timeZone |-> Some(GetOr(dt.tzinfo, "UTC"))]
         ELSE [dateTime |-> None, date |-> Some(dt.date), timeZone |-> None]

\* to_universal, lines 12-97
AppleToUniversal(ical_event) ==
    [id |-> ical_event.UID,
     summary |-> ical_event.SUMMARY,
     description |-> Some(GetOr(ical_event.DESCRIPTION, "")),
     status |-> Some(LowerStatus(GetOr(ical_event.STATUS, "CONFIRMED"))),
     location |-> ical_event.LOCATION,
     start |-> ApplePoint(ical_event.DTSTART),
     end |-> ApplePoint(ical_event.DTEND),
     attendees |-> [i \in DOMAIN ical_event.ATTENDEE |->
                      LET attendee == ical_event.ATTENDEE[i]
                          email == attendee.address[2]
                      IN [email |-> email,
                          displayName |-> Some(GetOr(attendee.CN, email)),
                          responseStatus |-> Some("needsAction")]],
     recurrence |-> IF Truthy(ical_event.RRULE)
                    THEN <<[prefixed |-> TRUE, parts |-> Get(ical_event.RRULE),
                            repr |-> None]>>
                    ELSE <<>>,
     microsoft_categories |-> None,
     colorId |-> None]

\* The two variables below belong to the specifications of a single call;
\* the batch specification leaves them alone
NoCall == [pc |-> "none"]
NoQuery == [pc |-> "none"]

-----------------------------------------------------------------------------
(* create_events_from_session: one run *)

IdleRun ==
    [pc |-> "idle", error |-> "", event_tuples |-> <<>>, idx |-> 1,
     calendar_event_ids |-> <<>>, all_conflicts |-> <<>>,
     \* history of the run, by position of the event in the session's list
     checked |-> {}, checkFailed |-> FALSE, createCalled |-> {}, made |-> {}, appended |-> {},
     recorded |-> {}, rejected |-> {},
     \* checkFailed: the conflict check of the current event raised and the
     \* create_event call that follows it has not been made yet
     \* history: the non-empty answers of fetch.check_conflicts, and where the
     \* other run stood when this one started
     conflictAnswers |-> {}, prior |-> "idle"]

\* Apple lines 82-88: the rows that exist and are not soft-deleted
RECURSIVE TuplesFromIds(_, _)
TuplesFromIds(ids, k) ==
    IF k > Len(ids) THEN <<>>
    ELSE LET row == EventGetById(ids[k]) IN
         (IF Truthy(row) /\ ~Truthy(Get(row).deleted_at)
          THEN <<[event_data |-> ApiEvent(Get(row)),
                  dropcal_event_id |-> Some(ids[k]), pos |-> k]>>
          ELSE <<>>) \o TuplesFromIds(ids, k + 1)

\* Apple lines 93-94, Microsoft line 109: the stored dicts, without an event id
TuplesFromProcessed(events) ==
    [k \in DOMAIN events |->
        [event_data |-> events[k], dropcal_event_id |-> None, pos |-> k]]

Raised(st, err) == [st EXCEPT !.pc = "raised", !.error = err]

Looping(st, tuples) ==
    [st EXCEPT !.event_tuples = tuples, !.idx = 1,
               !.pc = IF tuples = <<>> THEN "returned" ELSE "check"]

\* The for loop moves to the next tuple, or falls through to the return
Advance(st) ==
    [st EXCEPT !.idx = @ + 1,
               !.pc = IF st.idx + 1 > Len(st.event_tuples) THEN "returned" ELSE "check"]

AppleStart(st) ==
    IF session = None THEN Raised(st, "SessionNotFound")
    ELSE IF ~AppleIsAuthenticated(creds) THEN Raised(st, "NotAuthenticated")
    ELSE LET s == Get(session) IN
         IF s.event_ids # <<>> THEN Looping(st, TuplesFromIds(s.event_ids, 1))
         ELSE IF s.processed_events = <<>> THEN Raised(st, "NoEvents")
         ELSE Looping(st, TuplesFromProcessed(s.processed_events))

MicrosoftStart(st) ==
    IF session = None THEN Raised(st, "SessionNotFound")
    ELSE IF Get(session).processed_events = <<>> THEN Raised(st, "NoEvents")
    ELSE IF ~MicrosoftIsAuthenticated(creds) THEN Raised(st, "NotAuthenticated")
    ELSE Looping(st, TuplesFromProcessed(Get(session).processed_events))

\* Where a run stands, as another run's start sees it
Standing(st) == IF st.pc \in {"check", "create", "sync"} THEN "running" ELSE st.pc

\* A caller invokes create_events_from_session(user_id, session_id).  The two
\* runs are interchangeable, so r2 is the one that starts second.
Start(r) ==
    /\ run[r].pc = "idle"
    /\ r = "r2" => run["r1"].pc # "idle"
    /\ LET st == [run[r] EXCEPT !.prior = Standing(run[CHOOSE o \in Runs : o # r])] IN
         run' = [run EXCEPT ![r] = IF provider = "apple" THEN AppleStart(st)
                                   ELSE MicrosoftStart(st)]
    /\ UNCHANGED <<provider, creds, session, remote, syncs, call, query>>

Current(st) == st.event_tuples[st.idx]

\* A loop that creates the event whatever the conflict query answered
AfterCheckIgnoresConflicts(st, t, conflicts) == [st EXCEPT !.pc = "create"]

\* What the loop does with the answer of fetch.check_conflicts
AfterCheck(st, t, conflicts) ==
    IF conflicts # {}
    THEN Advance([st EXCEPT !.all_conflicts =
                     Append(@, [proposed_event |-> t.event_data,
                                conflicting_events |-> conflicts,
                                pos |-> t.pos])])
    ELSE [st EXCEPT !.pc = "create"]

\* What a remote query reflects: every event, or (eventual consistency) not
\* yet the ones created moments ago
Visible(api) == IF api = "stale" THEN {x \in remote : ~x.fresh} ELSE remote

\* Top of the loop body: the conflict check of a timed event.  api: the query
\* answers ("ok"), answers from a stale view ("stale"), or fails ("error").
CheckStep(r) ==
    /\ run[r].pc = "check"
    /\ LET st == run[r]
           t == Current(st)
           start_time == t.event_data.start.dateTime
           end_time == t.event_data.end.dateTime
       IN IF Truthy(start_time) /\ Truthy(end_time)
          THEN \E api \in {"ok", "stale", "error"} :
                 LET answer == check_conflicts(provider, Visible(api),
                                               Get(start_time), Get(end_time))
                     st1 == [st EXCEPT !.checked = @ \cup {t.pos}]
                     st2 == [st1 EXCEPT !.conflictAnswers =
                                IF answer = {} THEN @
                                ELSE @ \cup {[pos |-> t.pos, conflicts |-> answer]}]
                 IN IF api = "error"
                    THEN run' = [run EXCEPT ![r] =
                             [st1 EXCEPT !.pc = "create", !.checkFailed = TRUE]]
                    ELSE run' = [run EXCEPT ![r] = AfterCheck(st2, t, answer)]
          ELSE run' = [run EXCEPT ![r] = [st EXCEPT !.pc = "create"]]
    /\ UNCHANGED <<provider, creds, session, remote, syncs, call, query>>

\* The event the provider stores; fresh: created by a run of this model
RemoteEvent(uid, ev) ==
    [uid |-> uid, ev |-> [summary |-> ev.summary, start |-> ev.start, end |-> ev.end],
     status |-> "confirmed", fresh |-> TRUE]

\* Apple line 122: created_event is event_data, whose id was removed
AppleProviderEventId(st) == <<"apple-event", Len(st.calendar_event_ids)>>

\* What the loop does once create_event returned a created event
AfterCreated(st, t, provider_event_id) ==
    LET st1 == [st EXCEPT !.calendar_event_ids = Append(@, provider_event_id),
                          !.appended = @ \cup {t.pos},
                          !.made = @ \cup {t.pos}]
    IN IF provider = "apple" /\ Truthy(t.dropcal_event_id)
       THEN [st1 EXCEPT !.pc = "sync"]
       ELSE Advance(st1)

\* A loop without the except of line 134: the failure ends the run
AfterFailedAborts(st, t) == Raised(st, "CreateFailed")

\* create_event raised, or returned None: the loop goes on
AfterFailed(st, t) == Advance(st)

\* The create_event call of the loop body.  api: the remote call succeeds
\* ("ok"), fails inside create_event's try ("error"), or the client or the
\* credentials cannot be obtained ("raise").
CreateStep(r) ==
    /\ run[r].pc = "create"
    /\ \E api \in {"ok", "error", "raise"} :
         LET st == [run[r] EXCEPT !.createCalled = @ \cup {Current(run[r]).pos},
                                   !.checkFailed = FALSE]
             t == Current(st)
             n == Cardinality(remote)
         IN IF provider = "apple"
            THEN IF api = "ok"
                 THEN /\ remote' = remote \cup {RemoteEvent(<<"uuid", n>>, t.event_data)}
                      /\ run' = [run EXCEPT ![r] =
                                    AfterCreated(st, t, AppleProviderEventId(st))]
                 ELSE /\ remote' = remote
                      /\ run' = [run EXCEPT ![r] = AfterFailed(st, t)]
            ELSE IF api = "ok" /\ ~MicrosoftFromUniversalRaises(t.event_data)
                 THEN /\ remote' = remote \cup {RemoteEvent(<<"ms", n>>, t.event_data)}
                      /\ run' = [run EXCEPT ![r] = AfterCreated(st, t, <<"ms", n>>)]
                 ELSE /\ remote' = remote
                      /\ run' = [run EXCEPT ![r] = AfterFailed(st, t)]
    /\ UNCHANGED <<provider, creds, session, syncs, call, query>>

\* EventRepository.put: the unique key (universalEventId, provider)
SyncExists(event_id, p) == \E s \in syncs : s.event_id = event_id /\ s.provider = p

\* Apple lines 124-130: EventService.sync_to_provider; a rejected write raises
\* into the except of line 134
SyncStep(r) ==
    /\ run[r].pc = "sync"
    /\ LET st == run[r]
           t == Current(st)
           eid == Get(t.dropcal_event_id)
       IN IF SyncExists(eid, "apple")
          THEN /\ syncs' = syncs
               /\ run' = [run EXCEPT ![r] = Advance([st EXCEPT !.rejected = @ \cup {t.pos}])]
          ELSE /\ syncs' = syncs \cup
                    {[event_id |-> eid, provider |-> "apple",
                      provider_event_id |-> st.calendar_event_ids[Len(st.calendar_event_ids)],
                      calendar_id |-> "primary"]}
               /\ run' = [run EXCEPT ![r] = Advance([st EXCEPT !.recorded = @ \cup {t.pos}])]
    /\ UNCHANGED <<provider, creds, session, remote, call, query>>

\* The caller abandons the request while the run is in its loop, before the
\* session is run again (a request abandoned while another run is under way
\* is a run that takes no further step)
Abandon(r) ==
    /\ run[r].pc \in {"check", "create", "sync"}
    /\ run[CHOOSE o \in Runs : o # r].pc = "idle"
    /\ run' = [run EXCEPT ![r].pc = "abandoned"]
    /\ UNCHANGED <<provider, creds, session, remote, syncs, call, query>>

Init ==
    /\ provider \in Providers
    /\ creds \in {"valid", "none", "invalid"}
    /\ session \in Sessions
    /\ remote = ExistingRemote
    /\ syncs = {}
    /\ run = [r \in Runs |-> IdleRun]
    /\ call = NoCall
    /\ query = NoQuery

Next ==
    \/ \E r \in Runs : Start(r)
    \/ \E r \in Runs : CheckStep(r)
    \/ \E r \in Runs : CreateStep(r)
    \/ \E r \in Runs : SyncStep(r)
    \/ \E r \in Runs : Abandon(r)

Spec == Init /\ [][Next]_vars

-----------------------------------------------------------------------------
(* One call of create_event(user_id, event_data) of either provider, and a   *)
(* later read of the stored event through to_universal                       *)

\* Recurrence lines of the model: inside the grammar, and outside it
WeeklyTuTh == RRule(<<<<"FREQ", "WEEKLY">>, <<"BYDAY", "TU,TH">>>>)
GoodRules ==
    {WeeklyTuTh,
     RRule(<<<<"FREQ", "WEEKLY">>>>),
     RRule(<<<<"FREQ", "DAILY">>, <<"INTERVAL", "2">>, <<"COUNT", "3">>>>),
     RRule(<<<<"FREQ", "MONTHLY">>, <<"BYMONTHDAY", "3">>,
             <<"UNTIL", "20261231T235959Z">>>>),
     RRule(<<<<"FREQ", "YEARLY">>, <<"UNTIL", "20261231">>>>),
     RRule(<<<<"FREQ", "MONTHLY">>, <<"BYDAY", "MO">>>>)}
BadRules ==
    {RRule(<<<<"FREQ", "HOURLY">>>>),
     RRule(<<<<"FREQ", "WEEKLY">>, <<"INTERVAL", "abc">>>>),
     RRule(<<<<"FREQ", "DAILY">>, <<"COUNT", "abc">>>>),
     RRule(<<<<"FREQ", "DAILY">>, <<"UNTIL", "2026">>>>),
     RRule(<<<<"FREQ", "DAILY">>, <<"UNTIL", "next year">>>>),
     RRule(<<<<"FREQ", "DAILY">>, <<"UNTIL", "20261231">>, <<"COUNT", "3">>>>),
     RRule(<<<<"FREQ", "DAILY">>, <<"INTERVAL", "0">>>>)}

TimePoints ==
    {[start |-> [dateTime |-> Some(<<"2026-02-02", "14:00:00">>), date |-> None,
                 timeZone |-> tz],
      end |-> [dateTime |-> Some(<<"2026-02-02", "15:00:00">>), date |-> None,
               timeZone |-> tz]] : tz \in {Some("UTC"), Some("America/New_York")}}
    \cup {[start |-> [dateTime |-> None, date |-> Some("2026-02-25"), timeZone |-> None],
           end |-> [dateTime |-> None, date |-> Some("2026-02-26"), timeZone |-> None]]}
    \* a start and end whose date text is no date of the calendar
    \cup {[start |-> [dateTime |-> Some(<<"2026-02-30", "14:00:00">>), date |-> None,
                      timeZone |-> Some("UTC")],
           end |-> [dateTime |-> Some(<<"2026-02-30", "15:00:00">>), date |-> None,
                    timeZone |-> Some("UTC")]]}

Attendees ==
    {<<>>,
     <<[email |-> "ann@example.org", displayName |-> Some("Ann"),
        responseStatus |-> Some("accepted")]>>}

\* The universal events handed to create_event
UniversalEvents ==
    {[id |-> None, summary |-> "Review", description |-> description,
      location |-> location, status |-> status,
      start |-> t.start, end |-> t.end, attendees |-> attendees,
      recurrence |-> recurrence, colorId |-> look[1], microsoft_categories |-> look[2]] :
        description \in {None, Some("notes")},
        location \in {None, Some("Room 1")},
        status \in {Some("confirmed"), Some("tentative")},
        t \in TimePoints,
        attendees \in Attendees,
        recurrence \in {<<>>} \cup {<<r>> : r \in GoodRules \cup BadRules},
        look \in {<<None, None>>, <<Some("8"), None>>,
                  <<None, Some(<<"Work", "Custom">>)>>,
                  <<Some("8"), Some(<<"Custom">>)>>}}

\* What the provider answers to the request that creates the event
Responses == {"201", "400", "429", "503", "timeout"}

\* The JSON bodies posted to the Google route /api/calendar/create-event: an
\* event with an optional calendar name, its attendees given as address texts
\* (<<"str", address>>) or as dicts (<<"dict", address>>)
GoogleRequests ==
    {[id |-> None, summary |-> "Review", description |-> None, location |-> None,
      status |-> None, start |-> t.start, end |-> t.end, attendees |-> attendees,
      recurrence |-> <<>>, colorId |-> None, microsoft_categories |-> None,
      calendar |-> calendar] :
        t \in TimePoints,
        attendees \in {<<>>, <<<<"str", "ann@example.org">>>>,
                       <<<<"dict", "ann@example.org">>>>},
        calendar \in {None, Some("Work")}}

\* event_data: the dict the caller handed over, as it is now; received: as it
\* was when it was handed over
CallInit ==
    /\ creds = "valid"
    /\ session = None
    /\ remote = {}
    /\ syncs = {}
    /\ run = [r \in Runs |-> IdleRun]
    /\ query = NoQuery
    /\ \/ provider \in Providers
       \/ provider = "google"
    /\ \E event_data \in (IF provider = "google" THEN GoogleRequests
                           ELSE UniversalEvents) :
         call = [pc |-> "convert", event_data |-> event_data,
                 received |-> event_data, request |-> None,
                 responses |-> <<>>, stored |-> None, result |-> None,
                 fetched |-> None, rewritten |-> None]

\* app.py create_calendar_event, lines 913-934: the calendar name is popped
\* from the dict and attendee texts are replaced by dicts, in the dict that
\* was received; create_event(event_data, calendar_id=...) then raises
\* TypeError, since CalendarService.create_event takes no calendar_id
CallGoogleCreate ==
    /\ call.pc = "convert"
    /\ provider = "google"
    /\ LET attendees_list == call.event_data.attendees IN
       call' = [call EXCEPT
                  !.pc = "raised",
                  !.event_data =
                     [@ EXCEPT !.calendar = None,
                               !.attendees =
                                  IF attendees_list # <<>> /\ attendees_list[1][1] = "str"
                                  THEN [i \in DOMAIN attendees_list |->
                                           <<"dict", attendees_list[i][2]>>]
                                  ELSE attendees_list]]
    /\ UNCHANGED <<provider, creds, session, remote, syncs, run, query>>

\* transform.from_universal(event_data).  Microsoft calls it outside the try
\* (create.py line 46): what it raises leaves create_event.  Apple calls it
\* inside the try (create.py 37-56): create_event returns None.
CallConvert ==
    /\ call.pc = "convert"
    /\ provider \in Providers
    /\ IF provider = "microsoft"
       THEN IF MicrosoftFromUniversalRaises(call.event_data)
            THEN call' = [call EXCEPT !.pc = "raised"]
            ELSE call' = [call EXCEPT !.pc = "send",
                             !.request = Some(MicrosoftFromUniversal(call.event_data))]
       ELSE IF AppleFromUniversalRaises(call.event_data)
            THEN call' = [call EXCEPT !.pc = "returned"]
            ELSE call' = [call EXCEPT !.pc = "send",
                             !.request = Some(AppleFromUniversal(call.event_data,
                                                                 "uuid-1"))]
    /\ UNCHANGED <<provider, creds, session, remote, syncs, run, query>>

\* requests.post(...) and raise_for_status(), or calendar.save_event(...): one
\* request, whose failure makes create_event return None
CallPost ==
    /\ call.pc = "send"
    /\ \E response \in Responses :
         LET sent == [call EXCEPT !.responses = Append(@, response)] IN
         IF response = "201"
         THEN IF provider = "microsoft"
              THEN LET created == [Get(call.request) EXCEPT !.id = Some("AAMk-1")] IN
                   call' = [sent EXCEPT !.pc = "returned", !.stored = Some(created),
                                        !.result = Some(MicrosoftToUniversal(created))]
              ELSE call' = [sent EXCEPT !.pc = "returned", !.stored = call.request,
                                        !.result = Some(call.event_data)]
         ELSE call' = [sent EXCEPT !.pc = "returned"]
    /\ UNCHANGED <<provider, creds, session, remote, syncs, run, query>>

\* The response texts of an attendee's status on a Graph event
GraphResponses ==
    {"none", "accepted", "declined", "tentative", "tentativelyAccepted",
     "notResponded", "organizer"}

\* Between the creation and a later fetch the attendees answer: the stored
\* Graph event carries status.response for them
CallRespond ==
    /\ call.pc = "returned"
    /\ provider = "microsoft"
    /\ Truthy(call.stored)
    /\ Get(call.stored).attendees # <<>>
    /\ \A i \in DOMAIN Get(call.stored).attendees :
          ~Truthy(Get(call.stored).attendees[i].status)
    /\ \E response \in GraphResponses :
         call' = [call EXCEPT !.stored =
                     Some([Get(call.stored) EXCEPT !.attendees =
                              [i \in DOMAIN @ |-> [@[i] EXCEPT !.status = Some(response)]]])]
    /\ UNCHANGED <<provider, creds, session, remote, syncs, run, query>>

\* A later fetch of the stored event: transform.to_universal
CallRead ==
    /\ call.pc = "returned"
    /\ Truthy(call.stored)
    /\ call' = [call EXCEPT !.pc = "read",
                   !.fetched = Some(IF provider = "microsoft"
                                    THEN MicrosoftToUniversal(Get(call.stored))
                                    ELSE AppleToUniversal(Get(call.stored)))]
    /\ UNCHANGED <<provider, creds, session, remote, syncs, run, query>>

\* The event that was read is converted for the provider again
CallWriteBack ==
    /\ call.pc = "read"
    /\ ~MicrosoftFromUniversalRaises(Get(call.fetched))
    /\ call' = [call EXCEPT !.pc = "rewritten",
                   !.rewritten = Some(IF provider = "microsoft"
                                      THEN MicrosoftFromUniversal(Get(call.fetched))
                                      ELSE AppleFromUniversal(Get(call.fetched),
                                                              "uuid-2"))]
    /\ UNCHANGED <<provider, creds, session, remote, syncs, run, query>>

CallNext ==
    \/ CallConvert
    \/ CallGoogleCreate
    \/ CallPost
    \/ CallRespond
    \/ CallRead
    \/ CallWriteBack

SpecCall == CallInit /\ [][CallNext]_vars

-----------------------------------------------------------------------------
(* The batch as the caller sees it *)

Other(r) == CHOOSE o \in Runs : o # r

ReadsIds == provider = "apple" /\ session # None /\ Get(session).event_ids # <<>>

\* The list of the session the orchestrator of this provider iterates over
InputList ==
    IF session = None THEN <<>>
    ELSE IF ReadsIds THEN Get(session).event_ids
    ELSE Get(session).processed_events

Positions == DOMAIN InputList

InputEvent(k) == IF ReadsIds THEN ApiEvent(EventTable[InputList[k]]) ELSE InputList[k]

InputId(k) == InputList[k]

\* Positions whose stored row is not soft-deleted
LivePositions ==
    {k \in Positions : ReadsIds => ~Truthy(EventTable[InputList[k]].deleted_at)}

IsTimed(ev) == Truthy(ev.start.dateTime) /\ Truthy(ev.end.dateTime)

HasConflictEntry(r, k) ==
    \E j \in DOMAIN run[r].all_conflicts : run[r].all_conflicts[j].pos = k

\* The outcomes the returned pair (calendar_event_ids, all_conflicts) carries
\* for the event at position k
ReportedOutcomes(r, k) ==
    {o \in {"CREATED", "CONFLICT_SKIPPED"} :
        \/ o = "CREATED" /\ k \in run[r].appended
        \/ o = "CONFLICT_SKIPPED" /\ HasConflictEntry(r, k)}

InLoop(r) == run[r].pc \in {"check", "create", "sync"}

-----------------------------------------------------------------------------
(* Claims *)

\* C1: a run invoked after a first run of the same session has returned makes
\* no check_conflicts call and no create_event call for an event that already
\* has a sync record, and adds no remote event and no record for it.
C1_AlreadySyncedSkipsRemoteCalls ==
    \A r \in Runs :
        run[r].prior = "returned" =>
            \A k \in run[Other(r)].recorded :
                /\ k \notin run[r].checked
                /\ k \notin run[r].createCalled
                /\ k \notin run[r].made
                /\ k \notin run[r].recorded

\* C2: the result of a returned run carries exactly one outcome for every
\* event of the session's list.
C2_EveryInputHasOneOutcome ==
    \A r \in Runs :
        run[r].pc = "returned" =>
            \A k \in Positions : Cardinality(ReportedOutcomes(r, k)) = 1

C4_ConflictSkipsCreate ==
    \A r \in Runs :
        \A a \in run[r].conflictAnswers :
            /\ a.pos \notin run[r].createCalled
            /\ a.pos \notin run[r].appended
            /\ \E j \in DOMAIN run[r].all_conflicts :
                  /\ run[r].all_conflicts[j].pos = a.pos
                  /\ run[r].all_conflicts[j].proposed_event = InputEvent(a.pos)
                  /\ run[r].all_conflicts[j].conflicting_events = a.conflicts

\* A returned run holds an answer with two conflicting events.
C4_Witness ==
    \E r \in Runs :
        /\ run[r].pc = "returned"
        /\ \E a \in run[r].conflictAnswers : Cardinality(a.conflicts) = 2

\* C5: when a run has returned, the events it wrote a sync record for are
\* exactly the events it created remotely.
C5_RecordsMatchCreations ==
    \A r \in Runs : run[r].pc = "returned" => run[r].recorded = run[r].made

\* C6: of two timed events of one batch with overlapping intervals, the later
\* one is not created once the earlier one was created in the same run.
C6_SiblingConflictSkipped ==
    \A r \in Runs :
        \A i, j \in DOMAIN run[r].event_tuples :
            LET a == run[r].event_tuples[i]
                b == run[r].event_tuples[j]
            IN (/\ i < j
                /\ IsTimed(a.event_data) /\ IsTimed(b.event_data)
                /\ Overlaps(Get(a.event_data.start.dateTime), Get(a.event_data.end.dateTime),
                            Get(b.event_data.start.dateTime), Get(b.event_data.end.dateTime))
                /\ a.pos \in run[r].made)
               => b.pos \notin run[r].made

\* C7: there is at most one sync record per (event id, provider), and a run
\* whose record write was rejected as a duplicate does not report that event
\* as created.
C7_DuplicateWriteIsAlreadySynced ==
    /\ \A s1, s2 \in syncs :
          (s1.event_id = s2.event_id /\ s1.provider = s2.provider) => s1 = s2
    /\ \A r \in Runs : run[r].rejected \cap run[r].appended = {}

\* C8: when a run was started after the other run had been abandoned, the
\* records the abandoned run wrote are still there and no event is created
\* remotely by both runs.
C8_ResumeCreatesAtMostOnce ==
    \A r \in Runs :
        run[r].prior = "abandoned" =>
            /\ \A k \in run[Other(r)].recorded : SyncExists(InputId(k), provider)
            /\ run[Other(r)].made \cap run[r].made = {}

\* C9: without valid credentials a started run has raised, with the
\* authentication error when the session has events, and no run has called
\* check_conflicts or create_event, created a remote event or written a record.
C9_NoCredentialsNoCalls ==
    creds # "valid" =>
        /\ remote = ExistingRemote
        /\ syncs = {}
        /\ \A r \in Runs :
              /\ run[r].pc \in {"idle", "raised"}
              /\ run[r].checked = {} /\ run[r].createCalled = {}
              /\ run[r].recorded = {} /\ run[r].made = {}
              /\ (run[r].pc = "raised" /\ InputList # <<>>) =>
                    run[r].error = "NotAuthenticated"

\* A run of a session with events has raised the authentication error for
\* credentials that are stored but do not work.
C9_Witness ==
    \E r \in Runs :
        /\ creds = "invalid"
        /\ provider = "apple"
        /\ InputList # <<>>
        /\ run[r].pc = "raised"
        /\ run[r].error = "NotAuthenticated"

\* C10: with valid credentials a started run raises exactly when the batch is
\* empty, a batch whose stored events are all deleted included.
C10_RaisesOnlyForBatchPreconditions ==
    \A r \in Runs :
        (run[r].pc # "idle" /\ creds = "valid" /\ session # None) =>
            /\ LivePositions # {} => run[r].pc # "raised"
            /\ LivePositions = {} => run[r].pc = "raised"

-----------------------------------------------------------------------------
\* C11: a failure of the conflict check of an event is that event's failure:
\* create_event is not called for an event whose conflict check failed.
C11_FailedCheckSkipsCreate ==
    [][\A r \in Runs :
          run[r].checkFailed => run'[r].createCalled \subseteq run[r].createCalled]_vars

-----------------------------------------------------------------------------
\* C12: a request answered 429 or 5xx is retried: once create_event has
\* returned after such an answer, more than one request was made.
C12_ThrottledCreateIsRetried ==
    (/\ call.pc \in {"returned", "read", "rewritten"}
     /\ call.responses # <<>>
     /\ call.responses[1] \in {"429", "503"})
        => Len(call.responses) >= 2

-----------------------------------------------------------------------------
(* One call of Apple fetch.check_conflicts(user_id, start_time, end_time) on *)
(* a calendar                                                                *)

\* On the calendar: A [14:00,15:00) and B [14:30,15:30), a cancelled event at
\* A's time, events that end at 14:00 and start at 16:00, and an all-day event
\* on day 0
CalendarPool ==
    {[uid |-> <<"x", 1>>, ev |-> Timed(28, 30) @@ [summary |-> "A"],
      status |-> "confirmed", fresh |-> FALSE],
     [uid |-> <<"x", 2>>, ev |-> Timed(29, 31) @@ [summary |-> "B"],
      status |-> "confirmed", fresh |-> FALSE],
     [uid |-> <<"x", 3>>, ev |-> Timed(28, 30) @@ [summary |-> "K"],
      status |-> "cancelled", fresh |-> FALSE],
     [uid |-> <<"x", 4>>, ev |-> Timed(26, 28) @@ [summary |-> "P"],
      status |-> "tentative", fresh |-> FALSE],
     [uid |-> <<"x", 5>>, ev |-> Timed(32, 34) @@ [summary |-> "Q"],
      status |-> "confirmed", fresh |-> FALSE],
     [uid |-> <<"x", 6>>, ev |-> AllDay(0, 1) @@ [summary |-> "G"],
      status |-> "confirmed", fresh |-> FALSE]}

\* The candidate intervals [cs, ce) asked about
Candidates == {<<28, 30>>, <<30, 32>>, <<27, 29>>, <<60, 62>>}

QueryInit ==
    /\ provider = "apple"
    /\ creds = "valid"
    /\ session = None
    /\ remote \in SUBSET CalendarPool
    /\ syncs = {}
    /\ run = [r \in Runs |-> IdleRun]
    /\ call = NoCall
    /\ \E c \in Candidates :
         query = [pc |-> "ask", cs |-> c[1], ce |-> c[2], answer |-> {}]

\* check_conflicts answers with the list of conflicts, or (the range query
\* failed) raises ValueError
QueryAnswer ==
    /\ query.pc = "ask"
    /\ \E api \in {"ok", "error"} :
         IF api = "ok"
         THEN query' = [query EXCEPT !.pc = "answered",
                           !.answer = AppleCheckConflicts(remote, query.cs, query.ce)]
         ELSE query' = [query EXCEPT !.pc = "raised"]
    /\ UNCHANGED <<provider, creds, session, remote, syncs, run, call>>

QueryNext == QueryAnswer

SpecQuery == QueryInit /\ [][QueryNext]_vars

-----------------------------------------------------------------------------
\* The canonical RRULE grammar: FREQ one of the four frequencies, INTERVAL and
\* COUNT numbers, BYDAY two-letter day codes, UNTIL a date or a UTC date-time,
\* UNTIL and COUNT not both
WellFormedUntil == {"20261231", "20261231T235959Z"}

InGrammar(rule) ==
    LET params == Params(rule) IN
    /\ rule.repr = None
    /\ Freq(params) \in {"DAILY", "WEEKLY", "MONTHLY", "YEARLY"}
    /\ Truthy(params.INTERVAL) => Get(params.INTERVAL) \in Numerals \ {"0"}
    /\ Truthy(params.COUNT) => Get(params.COUNT) \in Numerals
    /\ Truthy(params.BYMONTHDAY) =>
          Freq(params) = "MONTHLY" /\ Get(params.BYMONTHDAY) \in Numerals
    /\ Truthy(params.BYDAY) =>
          \A i \in DOMAIN SplitComma(Get(params.BYDAY)) :
              SplitComma(Get(params.BYDAY))[i] \in DOMAIN day_map
    /\ Truthy(params.UNTIL) => Get(params.UNTIL) \in WellFormedUntil
    /\ ~(Truthy(params.UNTIL) /\ Truthy(params.COUNT))

OutsideGrammar(recurrence) == \E i \in DOMAIN recurrence : ~InGrammar(recurrence[i])

\* C13: an event whose recurrence is outside the grammar is never created on
\* the provider, neither with nor without its recurrence.
C13_OutsideGrammarNeverCreated ==
    OutsideGrammar(call.event_data.recurrence) => ~Truthy(call.stored)

-----------------------------------------------------------------------------
\* C14: check_conflicts for the candidate [cs, ce) returns exactly the events
\* [es, ee) of the calendar that are not cancelled and have es < ce and ee > cs:
\* an event that ends at cs or starts at ce is not returned, a cancelled event
\* never is.
C14_ConflictPredicate ==
    query.pc = "answered" =>
        /\ query.answer \subseteq remote
        /\ \A x \in query.answer : x.status # "cancelled"
        /\ \A x \in remote :
              IsTimed(x.ev) =>
                 (x \in query.answer <=>
                     /\ x.status # "cancelled"
                     /\ Get(x.ev.start.dateTime) < query.ce
                     /\ Get(x.ev.end.dateTime) > query.cs)

\* A calendar with an event that ends where the candidate starts, a cancelled
\* event inside the candidate, and an event that is returned
C14_Witness ==
    /\ query.pc = "answered"
    /\ query.answer # {}
    /\ \E x \in remote : IsTimed(x.ev) /\ Get(x.ev.end.dateTime) = query.cs
    /\ \E x \in remote :
          /\ x.status = "cancelled"
          /\ IsTimed(x.ev)
          /\ Get(x.ev.start.dateTime) < query.ce
          /\ Get(x.ev.end.dateTime) > query.cs

-----------------------------------------------------------------------------
\* The events A [14:00,15:00) and B [14:30,15:30) of the calendar
PoolA == CHOOSE x \in CalendarPool : x.ev.summary = "A"
PoolB == CHOOSE x \in CalendarPool : x.ev.summary = "B"

\* C15: with A and B on the calendar, the candidate [14:00,15:00) gets A and
\* B; the candidate [15:00,16:00) gets B, which it overlaps from 15:00 to
\* 15:30, and not A.
C15_ConflictScenario ==
    (query.pc = "answered" /\ {PoolA, PoolB} \subseteq remote) =>
        /\ (query.cs = 28 /\ query.ce = 30) => {PoolA, PoolB} \subseteq query.answer
        /\ (query.cs = 30 /\ query.ce = 32) =>
              PoolA \notin query.answer /\ PoolB \in query.answer

\* C15 as stated: the candidate [15:00,16:00) gets neither A nor B
C15_NeitherReturned ==
    (query.pc = "answered" /\ {PoolA, PoolB} \subseteq remote) =>
        /\ (query.cs = 28 /\ query.ce = 30) => {PoolA, PoolB} \subseteq query.answer
        /\ (query.cs = 30 /\ query.ce = 32) =>
              PoolA \notin query.answer /\ PoolB \notin query.answer

\* The query for [15:00,16:00) has answered on a calendar that holds A and B
C15_Witness ==
    /\ query.pc = "answered"
    /\ {PoolA, PoolB} \subseteq remote
    /\ query.cs = 30 /\ query.ce = 32

-----------------------------------------------------------------------------
\* C16: an all-day event of the calendar that is not cancelled counts as the
\* interval from the midnight of its start date to the midnight of its end
\* date, and check_conflicts returns it for every candidate that overlaps it.
C16_AllDayEventConflicts ==
    query.pc = "answered" =>
        \A x \in remote :
            (/\ Truthy(x.ev.start.date) /\ Truthy(x.ev.end.date)
             /\ x.status # "cancelled"
             /\ Midnight(Get(x.ev.start.date)) < query.ce
             /\ Midnight(Get(x.ev.end.date)) > query.cs)
                => x \in query.answer

-----------------------------------------------------------------------------
\* Structural equality of two universal events, but for the timeZone texts,
\* the id the provider assigns, the raw provider categories and the difference
\* between a missing and an empty description
SameButZone(e, f) ==
    /\ e.summary = f.summary
    /\ GetOr(e.description, "") = GetOr(f.description, "")
    /\ e.location = f.location
    /\ e.status = f.status
    /\ e.start.dateTime = f.start.dateTime /\ e.start.date = f.start.date
    /\ e.end.dateTime = f.end.dateTime /\ e.end.date = f.end.date
    /\ e.attendees = f.attendees
    /\ e.recurrence = f.recurrence
    /\ e.colorId = f.colorId

\* C17: an event written through from_universal and read back through
\* to_universal, on Microsoft and on Apple, equals the event that was written,
\* but for the timeZone texts.
C17_EventRoundTrip ==
    (Truthy(call.fetched) /\ ~OutsideGrammar(call.event_data.recurrence)) =>
        SameButZone(call.event_data, Get(call.fetched))

-----------------------------------------------------------------------------
\* C18: Microsoft writes an all-day event from d1 to d2 as isAllDay = true with
\* start.dateTime = d1 + "T00:00:00" and end.dateTime = d2 + "T00:00:00", and
\* reads it back as start = {date: d1}, end = {date: d2} without dateTime; a
\* timed event is never written with isAllDay = true.
C18_MicrosoftAllDayRoundTrip ==
    (provider = "microsoft" /\ Truthy(call.request)) =>
        LET e == call.event_data
            ms_event == Get(call.request)
        IN IF Truthy(e.start.date)
           THEN /\ ms_event.isAllDay = TRUE
                /\ Get(ms_event.start).dateTime = <<Get(e.start.date), "00:00:00">>
                /\ Get(ms_event.end).dateTime = <<Get(e.end.date), "00:00:00">>
                /\ Truthy(call.fetched) =>
                      /\ Get(call.fetched).start.date = e.start.date
                      /\ Get(call.fetched).end.date = e.end.date
                      /\ Get(call.fetched).start.dateTime = None
                      /\ Get(call.fetched).end.dateTime = None
           ELSE ms_event.isAllDay = FALSE

\* An all-day event was written to Microsoft and read back
C18_Witness ==
    /\ provider = "microsoft"
    /\ call.pc = "read"
    /\ Truthy(call.event_data.start.date)
    /\ Truthy(call.fetched)

-----------------------------------------------------------------------------
\* Two RRULE lines with the same frequency, interval, set of days and end
RuleEquivalent(r, q) ==
    /\ r.repr = None /\ q.repr = None
    /\ LET p == Params(r)
           o == Params(q)
           days(x) == IF Truthy(x.BYDAY)
                      THEN {SplitComma(Get(x.BYDAY))[i] :
                               i \in DOMAIN SplitComma(Get(x.BYDAY))}
                      ELSE {}
       IN /\ Freq(p) = Freq(o)
          /\ GetOr(p.INTERVAL, "1") = GetOr(o.INTERVAL, "1")
          /\ days(p) = days(o)
          /\ p.UNTIL = o.UNTIL
          /\ p.COUNT = o.COUNT

\* C19: a recurrence line of the grammar that is written to the provider and
\* read back is an equivalent line; "RRULE:FREQ=WEEKLY;BYDAY=TU,TH" comes back
\* as the same text.
C19_RRuleRoundTrip ==
    (/\ Truthy(call.fetched)
     /\ call.event_data.recurrence # <<>>
     /\ ~OutsideGrammar(call.event_data.recurrence)) =>
        LET written == call.event_data.recurrence
            back == Get(call.fetched).recurrence
        IN /\ Len(back) = Len(written)
           /\ \A i \in DOMAIN written : RuleEquivalent(written[i], back[i])
           /\ written = <<WeeklyTuTh>> => back = <<WeeklyTuTh>>

-----------------------------------------------------------------------------
\* C20: an event that carries raw provider categories is written to Microsoft
\* with exactly that list, whatever its colorId; the colour table is used only
\* when there are no raw categories; and a Microsoft event with categories c
\* that is read and written again has categories c.
C20_CategoriesPreserved ==
    (provider = "microsoft" /\ Truthy(call.request)) =>
        LET e == call.event_data
            ms_event == Get(call.request)
        IN /\ Truthy(e.microsoft_categories) =>
                 ms_event.categories = e.microsoft_categories
           /\ (~Truthy(e.microsoft_categories) /\ e.colorId = Some("8")) =>
                 ms_event.categories = Some(<<"Other">>)
           /\ (~Truthy(e.microsoft_categories) /\ ~Truthy(e.colorId)) =>
                 ms_event.categories = None
           /\ (Truthy(call.rewritten) /\ Truthy(Get(call.stored).categories)) =>
                 Get(call.rewritten).categories = Get(call.stored).categories

\* A Microsoft event with categories and a colorId that names another category
\* was written, read and written again
C20_Witness ==
    /\ provider = "microsoft"
    /\ call.pc = "rewritten"
    /\ Truthy(call.event_data.microsoft_categories)
    /\ Truthy(call.event_data.colorId)
    /\ Truthy(Get(call.stored).categories)

-----------------------------------------------------------------------------
\* C21: create_event is called for an event, timed or all-day, only after the
\* conflict check was called for that event.
C21_CreateOnlyAfterCheck ==
    \A r \in Runs : run[r].createCalled \subseteq run[r].checked

-----------------------------------------------------------------------------
\* The day-code table MO..SU to monday..sunday
WeekdayOfCode(code) ==
    CASE code = "MO" -> "monday" [] code = "TU" -> "tuesday"
      [] code = "WE" -> "wednesday" [] code = "TH" -> "thursday"
      [] code = "FR" -> "friday" [] code = "SA" -> "saturday"
      [] code = "SU" -> "sunday"

PatternTypeOf(freq) ==
    CASE freq = "DAILY" -> "daily" [] freq = "WEEKLY" -> "weekly"
      [] freq = "MONTHLY" -> "absoluteMonthly" [] freq = "YEARLY" -> "absoluteYearly"

\* The event of the call carries one rule of the grammar and was converted
\* for Microsoft
ConvertedRule ==
    /\ provider = "microsoft"
    /\ Truthy(call.request)
    /\ Len(call.event_data.recurrence) = 1
    /\ InGrammar(call.event_data.recurrence[1])

\* C22: a rule of the grammar is written to Microsoft with the pattern type of
\* its FREQ, its BYDAY codes mapped to day names in their order, and the date
\* of the event's start as range.startDate; FREQ=WEEKLY;BYDAY=TU,TH on
\* 2026-02-02 gives weekly, [tuesday, thursday], interval 1, noEnd, 2026-02-02.
C22_ForwardRecurrenceMapping ==
    ConvertedRule =>
        LET e == call.event_data
            params == Params(e.recurrence[1])
            recurrence == Get(call.request).recurrence
            codes == SplitComma(Get(params.BYDAY))
        IN /\ Truthy(recurrence)
           /\ Get(recurrence).pattern.type = PatternTypeOf(Freq(params))
           /\ Truthy(params.BYDAY) =>
                 Get(recurrence).pattern.daysOfWeek =
                     Some([i \in DOMAIN codes |-> WeekdayOfCode(codes[i])])
           /\ Get(recurrence).range.startDate =
                 (IF Truthy(e.start.dateTime) THEN Get(e.start.dateTime)[1]
                  ELSE Get(e.start.date))
           /\ (e.recurrence[1] = WeeklyTuTh /\ e.start.dateTime
                    = Some(<<"2026-02-02", "14:00:00">>)) =>
                 /\ Get(recurrence).pattern.type = "weekly"
                 /\ Get(recurrence).pattern.daysOfWeek = Some(<<"tuesday", "thursday">>)
                 /\ Get(recurrence).pattern.interval = 1
                 /\ Get(recurrence).range.type = "noEnd"
                 /\ Get(recurrence).range.startDate = "2026-02-02"

-----------------------------------------------------------------------------
\* The number a numeral of the model stands for
NumberOf(text) == CASE text = "1" -> 1 [] text = "2" -> 2 [] text = "3" -> 3

\* C23: the range written to Microsoft is noEnd exactly when the rule has
\* neither UNTIL nor COUNT; an UNTIL gives an endDate range with that date as
\* YYYY-MM-DD; a COUNT gives numberOfOccurrences = COUNT; no range carries
\* both endDate and numberOfOccurrences.
C23_RecurrenceRangeMapping ==
    /\ ConvertedRule =>
        LET params == Params(call.event_data.recurrence[1])
            range == Get(Get(call.request).recurrence).range
        IN /\ range.type = "noEnd" <=> (~Truthy(params.UNTIL) /\ ~Truthy(params.COUNT))
           /\ Truthy(params.UNTIL) =>
                 /\ range.type = "endDate"
                 /\ range.endDate = Some("2026-12-31")
           /\ Truthy(params.COUNT) =>
                 /\ range.type = "numbered"
                 /\ range.numberOfOccurrences = Some(NumberOf(Get(params.COUNT)))
    /\ (provider = "microsoft" /\ Truthy(call.request)
          /\ Truthy(Get(call.request).recurrence)) =>
        LET range == Get(Get(call.request).recurrence).range
        IN ~(Truthy(range.endDate) /\ Truthy(range.numberOfOccurrences))

\* A rule with UNTIL=20261231T235959Z was converted
C23_Witness ==
    /\ ConvertedRule
    /\ Params(call.event_data.recurrence[1]).UNTIL = Some("20261231T235959Z")
    /\ Truthy(Get(call.request).recurrence)

-----------------------------------------------------------------------------
\* The weekday of a date of the calendar
WeekdayOfDate(date) ==
    CASE date = "2026-02-02" -> "monday"
      [] date = "2026-02-25" -> "wednesday"
      [] date = "2026-02-26" -> "thursday"

\* The event of the call carries one weekly rule of the grammar and was
\* converted for Microsoft
ConvertedWeekly ==
    /\ ConvertedRule
    /\ Freq(Params(call.event_data.recurrence[1])) = "WEEKLY"

\* C24: a weekly rule without BYDAY is written to Microsoft with daysOfWeek
\* the one weekday of the event's start date; monday is never filled in when
\* the start is not on a Monday; every weekly rule has a non-empty daysOfWeek.
C24_WeeklyDefaultDay ==
    ConvertedWeekly =>
        LET e == call.event_data
            params == Params(e.recurrence[1])
            date == IF Truthy(e.start.dateTime) THEN Get(e.start.dateTime)[1]
                    ELSE Get(e.start.date)
            daysOfWeek == Get(call.request).recurrence[1].pattern.daysOfWeek
        IN /\ Truthy(daysOfWeek) /\ Get(daysOfWeek) # <<>>
           /\ ~Truthy(params.BYDAY) =>
                 /\ date \in {"2026-02-02", "2026-02-25", "2026-02-26"} =>
                       Get(daysOfWeek) = <<WeekdayOfDate(date)>>
                 /\ Get(daysOfWeek) = <<"monday">> => date = "2026-02-02"

-----------------------------------------------------------------------------
\* C25: every recurrence written to Microsoft has an interval of at least 1:
\* 1 when the rule has no INTERVAL, the INTERVAL otherwise, and never 0, not
\* even for INTERVAL=0.
C25_IntervalAtLeastOne ==
    (/\ provider = "microsoft"
     /\ Truthy(call.request)
     /\ Truthy(Get(call.request).recurrence)) =>
        LET params == Params(call.event_data.recurrence[1])
            interval == Get(Get(call.request).recurrence).pattern.interval
        IN /\ interval >= 1
           /\ ~Truthy(params.INTERVAL) => interval = 1
           /\ (Truthy(params.INTERVAL) /\ Get(params.INTERVAL) # "0") =>
                 interval = NumberOf(Get(params.INTERVAL))

-----------------------------------------------------------------------------
\* C26: every recurrence entry of an event that Microsoft to_universal returns
\* is an RRULE line of the grammar.
C26_ReadRecurrenceIsRRule ==
    (provider = "microsoft" /\ Truthy(call.fetched)) =>
        \A i \in DOMAIN Get(call.fetched).recurrence :
            InGrammar(Get(call.fetched).recurrence[i])

-----------------------------------------------------------------------------
\* The normalisation table: Microsoft response to canonical responseStatus
CanonicalResponse(status) ==
    IF ~Truthy(status) THEN "needsAction"
    ELSE CASE Get(status) = "accepted" -> "accepted"
           [] Get(status) = "declined" -> "declined"
           [] Get(status) \in {"tentative", "tentativelyAccepted"} -> "tentativelyAccepted"
           [] OTHER -> "needsAction"

\* C27: every attendee of an event read from Microsoft has the responseStatus
\* the table gives for the stored response: accepted, declined, tentative and
\* tentativelyAccepted as tentativelyAccepted, everything else needsAction.
C27_ResponseStatusNormalised ==
    (provider = "microsoft" /\ Truthy(call.fetched)) =>
        \A i \in DOMAIN Get(call.fetched).attendees :
            Get(call.fetched).attendees[i].responseStatus =
                Some(CanonicalResponse(Get(call.stored).attendees[i].status))

-----------------------------------------------------------------------------
\* A start or end that is present, and one with exactly one form: a date, or
\* a non-empty dateTime with its timeZone
PointPresent(p) == Truthy(p.date) \/ Truthy(p.dateTime) \/ Truthy(p.timeZone)

OneForm(p) ==
    \/ Truthy(p.date) /\ ~Truthy(p.dateTime)
    \/ /\ ~Truthy(p.date)
       /\ Truthy(p.dateTime) /\ Get(p.dateTime)[1] # "" /\ Truthy(p.timeZone)

-----------------------------------------------------------------------------
\* C29: the write paths of Microsoft, Apple and Google leave the event dict
\* they receive as it was: the same keys and the same values.
C29_EventNotMutated == call.event_data = call.received

-----------------------------------------------------------------------------
\* The provider event ids a batch returned are pairwise different
BatchIdsDistinct(r) ==
    \A i, j \in DOMAIN run[r].calendar_event_ids :
        i # j => run[r].calendar_event_ids[i] # run[r].calendar_event_ids[j]

\* C30: every provider_event_id an Apple batch records (in calendar_event_ids
\* and in the sync rows) is the UID of a VEVENT saved on the remote calendar,
\* and two events of one batch never get the same provider_event_id.
C30_AppleSyncIdentity ==
    provider = "apple" =>
        /\ \A r \in Runs :
             /\ \A i \in DOMAIN run[r].calendar_event_ids :
                   \E x \in remote : x.uid = run[r].calendar_event_ids[i]
             /\ BatchIdsDistinct(r)
        /\ \A s \in syncs :
              s.provider = "apple" => \E x \in remote : x.uid = s.provider_event_id

=============================================================================
